---- MODULE Spec2Model ----
(***************************************************************************)
(* Model of drive_rag_agent_render.py: the /webhook handler run_agent and  *)
(* the helpers it calls.  Python strings are sequences of one-character    *)
(* tokens.  The CJK characters of the report prefix are written "bao" and  *)
(* "gao" (one token each); fixed message texts are single tokens.          *)
(* A Drive listing returns every file of the folder in one page.           *)
(* Spec: webhook calls arrive one at a time.  SpecOverlap: two calls may   *)
(* run at once.  SpecAnalyze: analyze_text_with_gemini on its own, over    *)
(* every text and chunk size within the bounds.                            *)
(***************************************************************************)
EXTENDS Integers, Sequences, FiniteSets, TLC

VARIABLES now, folders, inbox, outbox, temp, frame, invocations,
          trace, calls, uploadCount, overlapped, removed, prevDone, mark

vars == <<now, folders, inbox, outbox, temp, frame, invocations,
          trace, calls, uploadCount, overlapped, removed, prevDone, mark>>

----------------------------------------------------------------------------
(* Bounds of the model *)

NumRuns == 2
MaxInvocations == 2
MaxInbox == 2
MaxTime == 3
MaxTextLen == 5
MaxChunkSize == 3
\* stands for the default chunk_size=8000 of analyze_text_with_gemini
DefaultChunkSize == 2

Runs == 1..NumRuns

----------------------------------------------------------------------------
(* Program constants *)

INPUT_FOLDER_NAME == "spec-inbox"
OUTPUT_FOLDER_NAME == "spec-outbox"
TEMP_FOLDER == <<"t", "e", "m", "p">>
\* minutes=3 in run_agent's call of list_new_files_in_folder
FreshMinutes == 3
ReportPrefix == <<"bao", "gao", "_">>
DocxSuffix == <<".", "d", "o", "c", "x">>
SupportedSuffixes == {<<".", "p", "d", "f">>, DocxSuffix, <<".", "t", "x", "t">>}
ListedMimeTypes == {"application/pdf", "application/docx", "text/plain"}
EmptyNotice == <<"NOTHING-EXTRACTED-NOTICE">>
ErrorSummary == [error |-> "FOLDER-NOT-FOUND"]
DoneSummary == [message |-> "ALL-FILES-DONE"]
Whitespace == {" ", "\n"}

----------------------------------------------------------------------------
(* Python string operations *)

Min(a, b) == IF a < b THEN a ELSE b

\* s[a:b] with 0-based offsets, clamped as Python slices are
Slice(s, a, b) == SubSeq(s, a + 1, Min(b, Len(s)))

StartsWith(s, p) == Len(s) >= Len(p) /\ SubSeq(s, 1, Len(p)) = p

EndsWith(s, p) == Len(s) >= Len(p) /\ SubSeq(s, Len(s) - Len(p) + 1, Len(s)) = p

EndsWithAny(s, ps) == \E p \in ps : EndsWith(s, p)

RECURSIVE LStrip(_)
LStrip(s) == IF s # <<>> /\ Head(s) \in Whitespace THEN LStrip(Tail(s)) ELSE s

RECURSIVE RStrip(_)
RStrip(s) ==
    IF s # <<>> /\ s[Len(s)] \in Whitespace THEN RStrip(SubSeq(s, 1, Len(s) - 1)) ELSE s

Strip(s) == RStrip(LStrip(s))

RECURSIVE Concat(_)
Concat(ss) == IF ss = <<>> THEN <<>> ELSE Head(ss) \o Concat(Tail(ss))

\* sep.join(ss)
RECURSIVE Join(_, _)
Join(ss, sep) ==
    IF ss = <<>> THEN <<>>
    ELSE IF Len(ss) = 1 THEN ss[1]
    ELSE ss[1] \o sep \o Join(Tail(ss), sep)

\* os.path.join(TEMP_FOLDER, name)
PathJoin(dir, name) == dir \o <<"/">> \o name

\* str.splitlines(): break at each "\n"; no empty last line
RECURSIVE SplitFrom(_, _)
SplitFrom(s, cur) ==
    IF s = <<>> THEN (IF cur = <<>> THEN <<>> ELSE <<cur>>)
    ELSE IF Head(s) = "\n" THEN <<cur>> \o SplitFrom(Tail(s), <<>>)
    ELSE SplitFrom(Tail(s), Append(cur, Head(s)))

SplitLines(s) == SplitFrom(s, <<>>)

----------------------------------------------------------------------------
(* Files.  A stored file's content is [parsable, parts]: parts is the     *)
(* whole text of a .txt file (one part), the paragraphs of a .docx file,  *)
(* the page texts of a .pdf file.  parsable = FALSE: the bytes are not    *)
(* valid for the file's type (open/decode raises).                        *)

NameTxt == <<"a", ".", "t", "x", "t">>
NamePdf == <<"b", ".", "p", "d", "f">>
NameDocx == <<"c", ".", "d", "o", "c", "x">>
NamePng == <<"i", ".", "p", "n", "g">>
NameReport == ReportPrefix \o NameTxt

GoodContent == [parsable |-> TRUE, parts |-> << <<"a", "b">> >>]
BadContent == [parsable |-> FALSE, parts |-> <<>>]

\* the files a user can drop into the input folder
Catalog ==
    { [name |-> NameTxt, mimeType |-> "text/plain", content |-> GoodContent],
      [name |-> NameTxt, mimeType |-> "text/plain", content |-> BadContent],
      [name |-> NamePdf, mimeType |-> "application/pdf", content |-> BadContent],
      [name |-> NameDocx, mimeType |-> "application/docx", content |-> BadContent],
      [name |-> NameReport, mimeType |-> "text/plain", content |-> GoodContent],
      [name |-> NamePng, mimeType |-> "text/plain", content |-> GoodContent] }

\* the files dropped while two webhook calls overlap
OverlapCatalog ==
    { [name |-> NameTxt, mimeType |-> "text/plain", content |-> GoodContent] }

----------------------------------------------------------------------------
(* Pure helpers of the program *)

NonBlank(p) == Strip(p) # <<>>

\* extract_text_from_file: [raised, text]
extract_text_from_file(file_path, content) ==
    IF EndsWith(file_path, <<".", "t", "x", "t">>)
    THEN IF content.parsable
         THEN [raised |-> FALSE, text |-> Concat(content.parts)]
         ELSE [raised |-> TRUE, text |-> <<>>]
    ELSE IF EndsWith(file_path, DocxSuffix)
    THEN IF content.parsable
         THEN [raised |-> FALSE,
               text |-> Join(SelectSeq(content.parts, NonBlank), <<"\n">>)]
         ELSE [raised |-> TRUE, text |-> <<>>]
    ELSE IF EndsWith(file_path, <<".", "p", "d", "f">>)
    THEN IF content.parsable
         THEN [raised |-> FALSE, text |-> Join(content.parts, <<"\n">>)]
         ELSE [raised |-> FALSE, text |-> <<>>]
    ELSE [raised |-> FALSE, text |-> <<>>]

\* "if not text", without the strip
IsEmptyText(text) == text = <<>>

\* if not text.strip()
IsBlankText(text) == Strip(text) = <<>>

\* text[i:i + chunk_size + 1]: each chunk runs one character into the next
RECURSIVE ChunksFromWide(_, _, _)
ChunksFromWide(text, i, chunk_size) ==
    IF i >= Len(text) THEN <<>>
    ELSE <<Slice(text, i, i + chunk_size + 1)>>
         \o ChunksFromWide(text, i + chunk_size, chunk_size)

\* [text[i:i + chunk_size] for i in range(0, len(text), chunk_size)]
RECURSIVE ChunksFrom(_, _, _)
ChunksFrom(text, i, chunk_size) ==
    IF i >= Len(text) THEN <<>>
    ELSE <<Slice(text, i, i + chunk_size)>> \o ChunksFrom(text, i + chunk_size, chunk_size)

\* range(0, len(text) - chunk_size + 1, chunk_size): the short last chunk is lost
ChunksFloor(text, chunk_size) ==
    ChunksFrom(SubSeq(text, 1, (Len(text) \div chunk_size) * chunk_size), 0, chunk_size)

Chunks(text, chunk_size) == ChunksFrom(text, 0, chunk_size)

\* the prompt built for chunk i
\* the prompt numbered as enumerate(chunks) without a start would number it
PromptZeroBased(i, chunk) == [index |-> i - 1, chunk |-> chunk]

Prompt(i, chunk) == [index |-> i, chunk |-> chunk]

\* what gemini.generate_content(prompt).text can be
Replies(prompt) == { <<" ", "re:">> \o prompt.chunk \o <<"\n">> }

\* the record without its closing line break
AnalysisRecordNoNewline(i, reply) ==
    <<"SECTION ", ToString(i), " ANALYSIS:", "\n">> \o Strip(reply)

AnalysisRecord(i, reply) ==
    <<"SECTION ", ToString(i), " ANALYSIS:", "\n">> \o Strip(reply) \o <<"\n">>

ErrorRecord(i, e) == <<"SECTION ", ToString(i), " ERROR:", e, "\n">>

\* the skip conditions of run_agent's loop
SkippedByName(file_name) ==
    StartsWith(file_name, ReportPrefix) \/ ~EndsWithAny(file_name, SupportedSuffixes)

OutputName(file_name) == ReportPrefix \o file_name \o DocxSuffix

\* the lookup with the ".docx" suffix forgotten
AlreadyReportedNoSuffix(output_name, existing_outputs) ==
    \E k \in 1..Len(existing_outputs) : existing_outputs[k] \o DocxSuffix = output_name

AlreadyReported(output_name, existing_outputs) ==
    \E k \in 1..Len(existing_outputs) : existing_outputs[k] = output_name

\* write_summary_to_docx: the paragraphs of the saved document
write_summary_to_docx(summary, original_filename) ==
    [parsable |-> TRUE,
     parts |-> << <<"REPORT-TITLE">> >>
               \o (IF original_filename # <<>>
                   THEN << <<"SOURCE-FILE:">> \o original_filename >> ELSE <<>>)
               \o << <<"GEMINI-RESULT-HEADING">> >>
               \o SplitLines(summary)]

\* ">=" in place of ">"
IsFreshInclusive(f, t, minutes) == f.createdTime >= t - minutes

\* the variant without the freshness filter
IsFreshAlways(f, t, minutes) == TRUE

\* list_new_files_in_folder's filter: listed mime types, created after the cutoff
IsFresh(f, t, minutes) == f.createdTime > t - minutes

----------------------------------------------------------------------------
(* State.                                                                  *)
(*   now          the clock, in minutes                                    *)
(*   folders      the names of the Drive folders that exist                *)
(*   inbox        the files of the input folder, in listing order; a       *)
(*                file's id is its position                                *)
(*   outbox       the files of the output folder, in listing order         *)
(*   temp         the local TEMP_FOLDER: path -> content                   *)
(*   frame        per webhook invocation, the locals of run_agent          *)
(*   invocations  number of webhook calls so far                           *)
(* History variables:                                                      *)
(*   trace        per invocation, the external steps it performed          *)
(*   calls        per invocation, the model calls it issued                *)
(*   uploadCount  per source file id, the uploads made for it              *)
(*   overlapped   some invocation began while another was running          *)
(*   removed      a file was removed from the output folder                *)
(*   prevDone     the last invocation ran alone and returned, and nothing  *)
(*                was added to the inbox or removed from the outbox since  *)
(*                it began                                                 *)
(*   mark         per invocation, "second" when it began right after such  *)
(*                an invocation, "first" when it began alone otherwise     *)

None == "None"
NoSummary == [none |-> None]

IdleFrame ==
    [pc |-> "idle", input_folder_id |-> None, output_folder_id |-> None,
     cutoff |-> 0, files |-> <<>>, existing_outputs |-> <<>>, idx |-> 0,
     local_path |-> <<>>, text |-> <<>>, chunk_size |-> DefaultChunkSize,
     chunks |-> <<>>, i |-> 0, full_response |-> <<>>, summary |-> <<>>,
     docx_path |-> <<>>, result |-> NoSummary, fault |-> None]

EmptyDir == [p \in {} |-> BadContent]

Running(r) == frame[r].pc \notin {"idle", "returned", "raised"}

Init ==
    /\ now = 0
    /\ folders \in SUBSET {INPUT_FOLDER_NAME, OUTPUT_FOLDER_NAME}
    /\ inbox = <<>>
    /\ outbox = <<>>
    /\ temp = EmptyDir
    /\ frame = [r \in Runs |-> IdleFrame]
    /\ invocations = 0
    /\ trace = [r \in Runs |-> <<>>]
    /\ calls = [r \in Runs |-> <<>>]
    /\ uploadCount = [k \in 1..MaxInbox |-> 0]
    /\ overlapped = FALSE
    /\ removed = FALSE
    /\ prevDone = FALSE
    /\ mark = [r \in Runs |-> "none"]

Step(r, name, ok) == [step |-> name, k |-> frame[r].idx, ok |-> ok]

Log(r, entries) == trace' = [trace EXCEPT ![r] = @ \o entries]

----------------------------------------------------------------------------
(* The environment *)

\* a user uploads a file into the input folder
AddInboxFile(catalog) ==
    /\ Len(inbox) < MaxInbox
    /\ \E f \in catalog :
         inbox' = Append(inbox, [id |-> Len(inbox) + 1, name |-> f.name,
                                 mimeType |-> f.mimeType, createdTime |-> now,
                                 content |-> f.content])
    /\ prevDone' = FALSE
    /\ mark' = [r \in Runs |-> "none"]
    /\ UNCHANGED <<now, folders, outbox, temp, frame, invocations, trace, calls,
                   uploadCount, overlapped, removed>>

\* a user deletes a file of the output folder
RemoveOutput ==
    /\ \E k \in 1..Len(outbox) :
         outbox' = SubSeq(outbox, 1, k - 1) \o SubSeq(outbox, k + 1, Len(outbox))
    /\ removed' = TRUE
    /\ prevDone' = FALSE
    /\ mark' = [r \in Runs |-> "none"]
    /\ UNCHANGED <<now, folders, inbox, temp, frame, invocations, trace, calls,
                   uploadCount, overlapped>>

Tick ==
    /\ now < MaxTime
    /\ now' = now + 1
    /\ UNCHANGED <<folders, inbox, outbox, temp, frame, invocations, trace, calls,
                   uploadCount, overlapped, removed, prevDone, mark>>

----------------------------------------------------------------------------
(* Drive helpers *)

get_folder_id_by_name(folder_name) ==
    IF folder_name \in folders THEN folder_name ELSE None

Listed(f) == f.mimeType \in ListedMimeTypes

FreshAt(f) == IsFresh(f, now, FreshMinutes)

list_new_files_in_folder == SelectSeq(SelectSeq(inbox, Listed), FreshAt)

list_files_in_folder == outbox

\* the name list cut one short
NamesShort(fs) == [k \in 1..(Len(fs) - 1) |-> fs[k].name]

Names(fs) == [k \in 1..Len(fs) |-> fs[k].name]

----------------------------------------------------------------------------
(* run_agent, one action per step of the handler *)

Others == <<now, folders, inbox>>
History == <<uploadCount, overlapped, removed, prevDone, mark>>

Goto(r, f) == frame' = [frame EXCEPT ![r] = f]

Raise(r, where) ==
    /\ Goto(r, [frame[r] EXCEPT !.pc = "raised", !.fault = where])
    /\ prevDone' = FALSE

\* POST /webhook arrives
Start(r) ==
    /\ frame[r].pc = "idle"
    /\ invocations < MaxInvocations
    /\ invocations' = invocations + 1
    /\ Goto(r, [IdleFrame EXCEPT !.pc = "resolve"])
    /\ IF \E q \in Runs \ {r} : Running(q)
       THEN /\ overlapped' = TRUE
            /\ prevDone' = FALSE
            /\ mark' = [q \in Runs |-> "none"]
       ELSE /\ mark' = [mark EXCEPT ![r] = IF prevDone THEN "second" ELSE "first"]
            /\ UNCHANGED <<overlapped, prevDone>>
    /\ UNCHANGED <<now, folders, inbox, outbox, temp, trace, calls, uploadCount,
                   removed>>

\* "and" in place of "or"
FoldersMissingBoth(input_folder_id, output_folder_id) ==
    input_folder_id = None /\ output_folder_id = None

\* if not input_folder_id or not output_folder_id
FoldersMissing(input_folder_id, output_folder_id) ==
    input_folder_id = None \/ output_folder_id = None

\* lines 162-165
Resolve(r) ==
    /\ frame[r].pc = "resolve"
    /\ LET input == get_folder_id_by_name(INPUT_FOLDER_NAME)
           output == get_folder_id_by_name(OUTPUT_FOLDER_NAME)
       IN IF FoldersMissing(input, output)
          THEN /\ Goto(r, [frame[r] EXCEPT !.input_folder_id = input,
                                           !.output_folder_id = output,
                                           !.pc = "returned",
                                           !.result = ErrorSummary])
               /\ prevDone' = (mark[r] # "none")
          ELSE /\ Goto(r, [frame[r] EXCEPT !.input_folder_id = input,
                                           !.output_folder_id = output,
                                           !.pc = "list_inbox"])
               /\ UNCHANGED prevDone
    /\ UNCHANGED <<now, folders, inbox, outbox, temp, invocations, trace, calls,
                   uploadCount, overlapped, removed, mark>>

\* line 167
ListInbox(r) ==
    /\ frame[r].pc = "list_inbox"
    /\ Goto(r, [frame[r] EXCEPT !.cutoff = now - FreshMinutes,
                                !.files = list_new_files_in_folder,
                                !.pc = "list_outbox"])
    /\ Log(r, <<Step(r, "list_inbox", TRUE)>>)
    /\ UNCHANGED <<Others, outbox, temp, invocations, calls, History>>

\* lines 168-169; the loop starts at the first listed file
ListOutbox(r) ==
    /\ frame[r].pc = "list_outbox"
    /\ Goto(r, [frame[r] EXCEPT !.existing_outputs = Names(list_files_in_folder),
                                !.idx = 1,
                                !.pc = "loop"])
    /\ Log(r, <<Step(r, "list_outbox", TRUE), Step(r, "makedirs", TRUE)>>)
    /\ UNCHANGED <<Others, outbox, temp, invocations, calls, History>>

\* lines 171-180, a file that is skipped
SkipFile(r) ==
    /\ frame[r].pc = "loop"
    /\ frame[r].idx <= Len(frame[r].files)
    /\ LET file_name == frame[r].files[frame[r].idx].name
       IN SkippedByName(file_name)
          \/ AlreadyReported(OutputName(file_name), frame[r].existing_outputs)
    /\ Goto(r, [frame[r] EXCEPT !.idx = @ + 1])
    /\ UNCHANGED <<Others, outbox, temp, invocations, trace, calls, History>>

\* lines 171-182, a file that is processed
BeginFile(r) ==
    /\ frame[r].pc = "loop"
    /\ frame[r].idx <= Len(frame[r].files)
    /\ LET file_name == frame[r].files[frame[r].idx].name
       IN /\ ~SkippedByName(file_name)
          /\ ~AlreadyReported(OutputName(file_name), frame[r].existing_outputs)
    /\ Goto(r, [frame[r] EXCEPT !.pc = "download"])
    /\ UNCHANGED <<Others, outbox, temp, invocations, trace, calls, History>>

\* the download with the extraction of line 184 left out
DownloadSkipsExtract(r) ==
    /\ frame[r].pc = "download"
    /\ LET file == frame[r].files[frame[r].idx]
           local_path == PathJoin(TEMP_FOLDER, file.name)
       IN /\ frame' = [frame EXCEPT ![r] = [frame[r] EXCEPT !.local_path = local_path,
                                                             !.pc = "analyze"]]
          /\ temp' = (local_path :> inbox[file.id].content) @@ temp
    /\ trace' = [trace EXCEPT ![r] = Append(@, [step |-> "download", k |-> frame[r].idx,
                                                ok |-> TRUE])]
    /\ UNCHANGED <<now, folders, inbox, outbox, invocations, calls, uploadCount,
                   overlapped, removed, prevDone, mark>>

\* line 183, save_file_to_temp
Download(r) ==
    /\ frame[r].pc = "download"
    /\ LET file == frame[r].files[frame[r].idx]
           local_path == PathJoin(TEMP_FOLDER, file.name)
       IN /\ Goto(r, [frame[r] EXCEPT !.local_path = local_path, !.pc = "extract"])
          /\ temp' = (local_path :> inbox[file.id].content) @@ temp
    /\ Log(r, <<Step(r, "download", TRUE)>>)
    /\ UNCHANGED <<Others, outbox, invocations, calls, History>>

\* line 183 raises (Drive or disk error)
DownloadFail(r) ==
    /\ frame[r].pc = "download"
    /\ Raise(r, "download")
    /\ Log(r, <<Step(r, "download", FALSE)>>)
    /\ UNCHANGED <<Others, outbox, temp, invocations, calls, uploadCount,
                   overlapped, removed, mark>>

\* line 184
Extract(r) ==
    /\ frame[r].pc = "extract"
    /\ LET res == extract_text_from_file(frame[r].local_path,
                                         temp[frame[r].local_path])
       IN IF res.raised
          THEN /\ Raise(r, "extract")
               /\ Log(r, <<Step(r, "extract", FALSE)>>)
          ELSE /\ Goto(r, [frame[r] EXCEPT !.text = res.text, !.pc = "analyze"])
               /\ Log(r, <<Step(r, "extract", TRUE)>>)
               /\ UNCHANGED prevDone
    /\ UNCHANGED <<Others, outbox, temp, invocations, calls, uploadCount,
                   overlapped, removed, mark>>

----------------------------------------------------------------------------
(* analyze_text_with_gemini(text, chunk_size), called at line 185 *)

ModelErrors == {"quota"}

\* lines 110-116
AnalyzeStart(r) ==
    /\ frame[r].pc = "analyze"
    /\ IF IsBlankText(frame[r].text)
       THEN Goto(r, [frame[r] EXCEPT !.summary = EmptyNotice, !.pc = "render"])
       ELSE Goto(r, [frame[r] EXCEPT
                       !.chunks = Chunks(frame[r].text, frame[r].chunk_size),
                       !.i = 1,
                       !.full_response = <<>>,
                       !.pc = "call"])
    /\ Log(r, <<Step(r, "analyze", TRUE)>>)
    /\ UNCHANGED <<Others, outbox, temp, invocations, calls, History>>

\* lines 117-132, the model answers
ModelCallOK(r) ==
    /\ frame[r].pc = "call"
    /\ frame[r].i <= Len(frame[r].chunks)
    /\ LET i == frame[r].i
           prompt == Prompt(i, frame[r].chunks[i])
       IN \E reply \in Replies(prompt) :
            /\ Goto(r, [frame[r] EXCEPT
                          !.full_response = Append(@, AnalysisRecord(i, reply)),
                          !.i = i + 1])
            /\ calls' = [calls EXCEPT ![r] =
                           Append(@, [k |-> frame[r].idx, prompt |-> prompt,
                                      ok |-> TRUE, out |-> reply])]
    /\ Log(r, <<Step(r, "model", TRUE)>>)
    /\ UNCHANGED <<Others, outbox, temp, invocations, History>>

\* the except clause leaves the loop
ModelCallFailAbort(r) ==
    /\ frame[r].pc = "call"
    /\ frame[r].i <= Len(frame[r].chunks)
    /\ LET i == frame[r].i
           prompt == Prompt(i, frame[r].chunks[i])
       IN \E e \in {"quota"} :
            /\ Goto(r, [frame[r] EXCEPT
                          !.full_response = Append(@, ErrorRecord(i, e)),
                          !.i = Len(frame[r].chunks) + 1])
            /\ calls' = [calls EXCEPT ![r] =
                           Append(@, [k |-> frame[r].idx, prompt |-> prompt,
                                      ok |-> FALSE, out |-> <<e>>])]
    /\ trace' = [trace EXCEPT ![r] = Append(@, [step |-> "model", k |-> frame[r].idx,
                                                ok |-> FALSE])]
    /\ UNCHANGED <<now, folders, inbox, outbox, temp, invocations,
                   uploadCount, overlapped, removed, prevDone, mark>>

\* lines 117-134, the model call raises
ModelCallFail(r) ==
    /\ frame[r].pc = "call"
    /\ frame[r].i <= Len(frame[r].chunks)
    /\ LET i == frame[r].i
           prompt == Prompt(i, frame[r].chunks[i])
       IN \E e \in ModelErrors :
            /\ Goto(r, [frame[r] EXCEPT
                          !.full_response = Append(@, ErrorRecord(i, e)),
                          !.i = i + 1])
            /\ calls' = [calls EXCEPT ![r] =
                           Append(@, [k |-> frame[r].idx, prompt |-> prompt,
                                      ok |-> FALSE, out |-> <<e>>])]
    /\ Log(r, <<Step(r, "model", FALSE)>>)
    /\ UNCHANGED <<Others, outbox, temp, invocations, History>>

\* line 136
AnalyzeReturn(r) ==
    /\ frame[r].pc = "call"
    /\ frame[r].i > Len(frame[r].chunks)
    /\ Goto(r, [frame[r] EXCEPT
                  !.summary = Join(frame[r].full_response, <<"\n", "\n">>),
                  !.pc = "render"])
    /\ UNCHANGED <<Others, outbox, temp, invocations, trace, calls, History>>

----------------------------------------------------------------------------
(* run_agent, after the analysis *)

\* lines 186-187
Render(r) ==
    /\ frame[r].pc = "render"
    /\ LET file_name == frame[r].files[frame[r].idx].name
           docx_path == PathJoin(TEMP_FOLDER, OutputName(file_name))
       IN /\ Goto(r, [frame[r] EXCEPT !.docx_path = docx_path, !.pc = "upload"])
          /\ temp' = (docx_path :> write_summary_to_docx(frame[r].summary, file_name))
                     @@ temp
    /\ Log(r, <<Step(r, "render", TRUE)>>)
    /\ UNCHANGED <<Others, outbox, invocations, calls, History>>

\* line 187 raises (disk error)
RenderFail(r) ==
    /\ frame[r].pc = "render"
    /\ Raise(r, "render")
    /\ Log(r, <<Step(r, "render", FALSE)>>)
    /\ UNCHANGED <<Others, outbox, temp, invocations, calls, uploadCount,
                   overlapped, removed, mark>>

\* the upload also adds the report's name to existing_outputs
UploadRefreshes(r) ==
    /\ frame[r].pc = "upload"
    /\ LET file == frame[r].files[frame[r].idx]
       IN /\ outbox' = Append(outbox, [name |-> OutputName(file.name),
                                       content |-> temp[frame[r].docx_path]])
          /\ uploadCount' = [uploadCount EXCEPT ![file.id] = @ + 1]
          /\ frame' = [frame EXCEPT ![r] =
                         [frame[r] EXCEPT
                            !.existing_outputs = Append(@, OutputName(file.name)),
                            !.pc = "notify"]]
    /\ trace' = [trace EXCEPT ![r] = Append(@, [step |-> "upload", k |-> frame[r].idx,
                                                ok |-> TRUE])]
    /\ UNCHANGED <<now, folders, inbox, temp, invocations, calls, overlapped, removed,
                   prevDone, mark>>

\* line 188, upload_file_to_folder: a new file is created, whatever exists
Upload(r) ==
    /\ frame[r].pc = "upload"
    /\ LET file == frame[r].files[frame[r].idx]
       IN /\ outbox' = Append(outbox, [name |-> OutputName(file.name),
                                       content |-> temp[frame[r].docx_path]])
          /\ uploadCount' = [uploadCount EXCEPT ![file.id] = @ + 1]
    /\ Goto(r, [frame[r] EXCEPT !.pc = "notify"])
    /\ Log(r, <<Step(r, "upload", TRUE)>>)
    /\ UNCHANGED <<Others, temp, invocations, calls, overlapped, removed, prevDone,
                   mark>>

\* line 188 raises (Drive error)
UploadFail(r) ==
    /\ frame[r].pc = "upload"
    /\ Raise(r, "upload")
    /\ Log(r, <<Step(r, "upload", FALSE)>>)
    /\ UNCHANGED <<Others, outbox, temp, invocations, calls, uploadCount,
                   overlapped, removed, mark>>

\* send_line_message_to_self without its try/except
NotifyRaises(r) ==
    /\ frame[r].pc = "notify"
    /\ \/ /\ trace' = [trace EXCEPT ![r] = Append(@, [step |-> "notify",
                                                      k |-> frame[r].idx, ok |-> TRUE])]
          /\ frame' = [frame EXCEPT ![r] = [frame[r] EXCEPT !.idx = @ + 1, !.pc = "loop"]]
          /\ UNCHANGED prevDone
       \/ /\ trace' = [trace EXCEPT ![r] = Append(@, [step |-> "notify",
                                                      k |-> frame[r].idx, ok |-> FALSE])]
          /\ frame' = [frame EXCEPT ![r] = [frame[r] EXCEPT !.pc = "raised",
                                                            !.fault = "notify"]]
          /\ prevDone' = FALSE
    /\ UNCHANGED <<now, folders, inbox, outbox, temp, invocations, calls, uploadCount,
                   overlapped, removed, mark>>

\* line 190, send_line_message_to_self: the push succeeds or its error is printed
Notify(r) ==
    /\ frame[r].pc = "notify"
    /\ \E ok \in BOOLEAN : Log(r, <<Step(r, "notify", ok)>>)
    /\ Goto(r, [frame[r] EXCEPT !.idx = @ + 1, !.pc = "loop"])
    /\ UNCHANGED <<Others, outbox, temp, invocations, calls, History>>

\* line 192
ReturnDone(r) ==
    /\ frame[r].pc = "loop"
    /\ frame[r].idx > Len(frame[r].files)
    /\ Goto(r, [frame[r] EXCEPT !.pc = "returned", !.result = DoneSummary])
    /\ prevDone' = (mark[r] # "none")
    /\ UNCHANGED <<Others, outbox, temp, invocations, trace, calls, uploadCount,
                   overlapped, removed, mark>>

\* the response (or the exception) has been handed to the web framework
Finish(r) ==
    /\ frame[r].pc \in {"returned", "raised"}
    /\ Goto(r, IdleFrame)
    /\ trace' = [trace EXCEPT ![r] = <<>>]
    /\ calls' = [calls EXCEPT ![r] = <<>>]
    /\ mark' = [mark EXCEPT ![r] = "none"]
    /\ UNCHANGED <<Others, outbox, temp, invocations, uploadCount, overlapped,
                   removed, prevDone>>

----------------------------------------------------------------------------

Analyze(r) ==
    \/ AnalyzeStart(r)
    \/ ModelCallOK(r)
    \/ ModelCallFail(r)
    \/ AnalyzeReturn(r)

run_agent(r) ==
    \/ Start(r)
    \/ Resolve(r)
    \/ ListInbox(r)
    \/ ListOutbox(r)
    \/ SkipFile(r)
    \/ BeginFile(r)
    \/ Download(r)
    \/ DownloadFail(r)
    \/ Extract(r)
    \/ Analyze(r)
    \/ Render(r)
    \/ RenderFail(r)
    \/ Upload(r)
    \/ UploadFail(r)
    \/ Notify(r)
    \/ ReturnDone(r)
    \/ Finish(r)

\* webhook calls arrive one at a time
Next ==
    \/ AddInboxFile(Catalog)
    \/ RemoveOutput
    \/ Tick
    \/ run_agent(1)

Spec == Init /\ [][Next]_vars

\* webhook calls may overlap
InitOverlap == Init /\ folders = {INPUT_FOLDER_NAME, OUTPUT_FOLDER_NAME}

NextOverlap ==
    \/ AddInboxFile(OverlapCatalog)
    \/ RemoveOutput
    \/ \E r \in Runs : run_agent(r)

SpecOverlap == InitOverlap /\ [][NextOverlap]_vars

\* analyze_text_with_gemini alone, on every text and chunk size within the bounds
TextAlphabet == {"a", " ", "\n"}

Texts == UNION { [1..n -> TextAlphabet] : n \in 0..MaxTextLen }

InitAnalyze ==
    /\ now = 0
    /\ folders = {INPUT_FOLDER_NAME, OUTPUT_FOLDER_NAME}
    /\ inbox = <<>>
    /\ outbox = <<>>
    /\ temp = EmptyDir
    /\ \E text \in Texts, chunk_size \in 1..MaxChunkSize :
         frame = [r \in Runs |->
                    IF r = 1
                    THEN [IdleFrame EXCEPT !.pc = "analyze", !.text = text,
                                           !.chunk_size = chunk_size]
                    ELSE IdleFrame]
    /\ invocations = 0
    /\ trace = [r \in Runs |-> <<>>]
    /\ calls = [r \in Runs |-> <<>>]
    /\ uploadCount = [k \in 1..MaxInbox |-> 0]
    /\ overlapped = FALSE
    /\ removed = FALSE
    /\ prevDone = FALSE
    /\ mark = [r \in Runs |-> "none"]

NextAnalyze == Analyze(1)

SpecAnalyze == InitAnalyze /\ [][NextAnalyze]_vars

----------------------------------------------------------------------------
(* Properties *)

PipelineSteps == {"download", "extract", "render", "upload", "notify"}

Entries(r) == 1..Len(trace[r])

Did(r, name, k) ==
    \E n \in Entries(r) : trace[r][n].step = name /\ trace[r][n].k = k

Uploaded(r) ==
    { n \in Entries(r) : trace[r][n].step = "upload" /\ trace[r][n].ok }

Over(r) == frame[r].pc \in {"returned", "raised"}

BothFoldersExist == folders = {INPUT_FOLDER_NAME, OUTPUT_FOLDER_NAME}

\* C1: an invocation that begins right after an invocation that ran alone and
\* returned, with no file added to the inbox and none removed from the outbox
\* in between, uploads nothing.
C1_Idempotent == \A r \in Runs : mark[r] = "second" => Uploaded(r) = {}

\* the second invocation returns having skipped a file the first one reported
C1_Witness ==
    \E r \in Runs :
      /\ mark[r] = "second"
      /\ frame[r].pc = "returned"
      /\ frame[r].result = DoneSummary
      /\ \E n \in 1..Len(frame[r].files) :
           /\ uploadCount[frame[r].files[n].id] = 1
           /\ AlreadyReported(OutputName(frame[r].files[n].name),
                              frame[r].existing_outputs)

\* C2: a failing step of one candidate's pipeline does not end the run with
\* an exception, and the run goes on to attempt every later candidate.
C2_FaultIsolation ==
    \A r \in Runs :
      (\E n \in Entries(r) : trace[r][n].step \in PipelineSteps /\ ~trace[r][n].ok
                             /\ trace[r][n].step # "notify")
      => /\ frame[r].pc # "raised"
         /\ frame[r].pc = "returned" =>
              \A k \in 1..Len(frame[r].files) :
                (/\ ~SkippedByName(frame[r].files[k].name)
                 /\ ~AlreadyReported(OutputName(frame[r].files[k].name),
                                     frame[r].existing_outputs))
                => Did(r, "download", k)

\* C3 as stated: no source file ever has more than one report uploaded for it.
C3_UploadedOnce == \A k \in 1..MaxInbox : uploadCount[k] <= 1

\* C3 amended: as long as no invocation began while another was running and
\* nothing was removed from the output folder, no source file has more than
\* one report uploaded for it.
C3_UploadedOnceSequential ==
    (~overlapped /\ ~removed) => \A k \in 1..MaxInbox : uploadCount[k] <= 1

\* a later invocation, not overlapping the first, has returned without
\* uploading for a file that was listed to it and already has its report
C3_Witness ==
    /\ ~overlapped
    /\ ~removed
    /\ invocations = 2
    /\ \E r \in Runs :
         /\ frame[r].pc = "returned"
         /\ Uploaded(r) = {}
         /\ \E n \in 1..Len(frame[r].files) : uploadCount[frame[r].files[n].id] = 1

\* C4: with both folders present, a run in which no file survives the skip
\* filter returns something other than the completion summary, and the
\* completion summary is returned only when a candidate was processed.
C4_OutcomeDistinguished ==
    \A r \in Runs :
      (frame[r].pc = "returned" /\ BothFoldersExist)
      => (frame[r].result = DoneSummary
          <=> \E k \in 1..Len(frame[r].files) : Did(r, "download", k))

\* C5: when a folder is missing, a run that has resolved the folders has
\* returned the error summary and has listed, created, downloaded, called,
\* uploaded and notified nothing.
C5_MissingFolderAbort ==
    \A r \in Runs :
      (~BothFoldersExist /\ frame[r].pc \notin {"idle", "resolve"})
      => /\ frame[r].pc = "returned"
         /\ frame[r].result = ErrorSummary
         /\ trace[r] = <<>>
         /\ calls[r] = <<>>
         /\ outbox = <<>>
         /\ temp = EmptyDir

\* only the output folder is missing and the inbox holds a file
C5_Witness ==
    \E r \in Runs :
      /\ folders = {INPUT_FOLDER_NAME}
      /\ inbox # <<>>
      /\ frame[r].pc = "returned"
      /\ frame[r].result = ErrorSummary

CeilDiv(a, b) == (a + b - 1) \div b

AllWhitespace(text) == \A j \in 1..Len(text) : text[j] \in Whitespace

\* the analysis of frame r has finished with the loop (line 136 reached)
Analyzed(r) == frame[r].pc = "render" /\ ~AllWhitespace(frame[r].text)

\* C6: on non-blank text, while and after the loop runs there is exactly one
\* record per model call made, record j carries index j and is the analysis
\* record of call j when it answered and the error record when it raised, call
\* j was given chunk j, and at the end there is one record for every chunk.
C6_OneRecordPerChunk ==
    \A r \in Runs :
      LET f == frame[r]
          cs == ChunksFrom(f.text, 0, f.chunk_size)
      IN (f.pc = "call" \/ Analyzed(r))
         => /\ Len(f.full_response) = Len(calls[r])
            /\ \A j \in 1..Len(calls[r]) :
                 /\ calls[r][j].prompt = [index |-> j, chunk |-> cs[j]]
                 /\ f.full_response[j][2] = ToString(j)
                 /\ f.full_response[j] =
                      IF calls[r][j].ok
                      THEN AnalysisRecord(j, calls[r][j].out)
                      ELSE ErrorRecord(j, calls[r][j].out[1])
            /\ Analyzed(r) => Len(f.full_response) = Len(cs)

\* three chunks, the call for the second raised, the other two answered
C6_Witness ==
    \E r \in Runs :
      /\ Analyzed(r)
      /\ Len(frame[r].chunks) = 3
      /\ calls[r][1].ok /\ ~calls[r][2].ok /\ calls[r][3].ok
      /\ Len(frame[r].full_response) = 3

\* C7: for every text and chunk size, the chunks of line 113 concatenated in
\* order give the text back, and a non-empty text has ceil(len/size) chunks;
\* the chunks the loop works on are these.
C7_ChunkRoundTrip ==
    \A r \in Runs :
      LET f == frame[r]
          cs == Chunks(f.text, f.chunk_size)
      IN /\ Concat(cs) = f.text
         /\ Len(f.text) > 0 => Len(cs) = CeilDiv(Len(f.text), f.chunk_size)
         /\ f.pc = "call" => f.chunks = cs

\* a text that does not divide evenly: the last chunk is shorter
C7_Witness ==
    \E r \in Runs :
      /\ frame[r].pc = "call"
      /\ Len(frame[r].chunks) = 2
      /\ Len(frame[r].chunks[1]) = frame[r].chunk_size
      /\ Len(frame[r].chunks[2]) < frame[r].chunk_size

\* C8: when the text is empty or all whitespace, the analysis ends with the
\* fixed notice as its result, having made no chunk and no model call.
C8_EmptyShortCircuit ==
    \A r \in Runs :
      (AllWhitespace(frame[r].text) /\ frame[r].pc \in {"call", "render"})
      => /\ frame[r].pc = "render"
         /\ frame[r].summary = EmptyNotice
         /\ frame[r].chunks = <<>>
         /\ calls[r] = <<>>

\* a text of whitespace only, not empty, got the notice
C8_Witness ==
    \E r \in Runs :
      /\ frame[r].pc = "render"
      /\ Len(frame[r].text) > 1
      /\ AllWhitespace(frame[r].text)
      /\ frame[r].summary = EmptyNotice

IsPrefix(p, s) == Len(s) >= Len(p) /\ \A j \in 1..Len(p) : s[j] = p[j]

IsSuffix(p, s) ==
    Len(s) >= Len(p) /\ \A j \in 1..Len(p) : s[Len(s) - Len(p) + j] = p[j]

Excluded(name) ==
    \/ IsPrefix(<<"bao", "gao", "_">>, name)
    \/ ~(\/ IsSuffix(<<".", "p", "d", "f">>, name)
         \/ IsSuffix(<<".", "d", "o", "c", "x">>, name)
         \/ IsSuffix(<<".", "t", "x", "t">>, name))

InSnapshot(r, name) ==
    \E j \in 1..Len(frame[r].existing_outputs) :
      frame[r].existing_outputs[j] = <<"bao", "gao", "_">> \o name \o <<".", "d", "o", "c", "x">>

\* no step and no model call of the run is for a file with an excluded name
C9_NoStepForExcluded ==
    \A r \in Runs :
      /\ \A n \in Entries(r) :
           trace[r][n].step \in PipelineSteps
           => ~Excluded(frame[r].files[trace[r][n].k].name)
      /\ \A n \in 1..Len(calls[r]) : ~Excluded(frame[r].files[calls[r][n].k].name)

\* C9: no pipeline step is performed for a file whose name has the report
\* prefix or lacks a supported extension, and when the run is over every other
\* listed file whose report name is not in the outbox snapshot was processed.
C9_SkipFilter ==
    /\ C9_NoStepForExcluded
    /\ \A r \in Runs :
         Over(r) /\ frame[r].result # ErrorSummary
         => \A k \in 1..Len(frame[r].files) :
              (~Excluded(frame[r].files[k].name) /\ ~InSnapshot(r, frame[r].files[k].name))
              => Did(r, "download", k)

SupportedType(name) ==
    \/ IsSuffix(<<".", "p", "d", "f">>, name)
    \/ IsSuffix(<<".", "d", "o", "c", "x">>, name)
    \/ IsSuffix(<<".", "t", "x", "t">>, name)

\* C10: the extraction of a candidate of a supported type whose content cannot
\* be parsed does not raise, it gives the empty text, and the report uploaded
\* for the file is the rendering of the fixed notice.
C10_DegradeUnparsable ==
    \A r \in Runs :
      \A n \in Entries(r) :
        LET e == trace[r][n]
            file == frame[r].files[e.k]
        IN (/\ e.step = "extract"
            /\ SupportedType(file.name)
            /\ ~inbox[file.id].content.parsable)
           => /\ e.ok
              /\ (frame[r].idx = e.k /\ frame[r].pc = "analyze") => frame[r].text = <<>>
              /\ (frame[r].idx = e.k /\ frame[r].pc = "notify")
                 => outbox[Len(outbox)] =
                      [name |-> OutputName(file.name),
                       content |-> write_summary_to_docx(EmptyNotice, file.name)]

\* the steps one candidate goes through, in the order of lines 183-190
StepOrder ==
    { <<"download", "extract">>, <<"extract", "analyze">>, <<"analyze", "model">>,
      <<"model", "model">>, <<"analyze", "render">>, <<"model", "render">>,
      <<"render", "upload">>, <<"upload", "notify">> }

CandidateSteps == PipelineSteps \cup {"analyze", "model"}

\* C11: within one invocation the candidates are taken in listing order, a
\* candidate's steps come in the order download, extract, analyze (with its
\* model calls), render, upload, notify, and the first step of a candidate
\* comes only after the notify step of the one before it.
C11_Sequential ==
    \A r \in Runs :
      \A n \in Entries(r) :
        LET b == trace[r][n]
        IN b.step \in CandidateSteps
           => /\ b.k \in 1..Len(frame[r].files)
              /\ IF n = 1 \/ trace[r][n - 1].step \notin CandidateSteps
                 THEN b.step = "download"
                 ELSE LET a == trace[r][n - 1]
                      IN \/ /\ a.k = b.k
                            /\ <<a.step, b.step>> \in StepOrder
                            /\ a.ok \/ a.step = "model"
                         \/ /\ a.k < b.k
                            /\ a.step = "notify"
                            /\ b.step = "download"

\* a run that took two candidates through all their steps
C11_Witness ==
    \E r \in Runs :
      /\ frame[r].pc = "returned"
      /\ \E n \in Entries(r) : trace[r][n].step = "notify" /\ trace[r][n].k = 1
      /\ \E n \in Entries(r) : trace[r][n].step = "model" /\ trace[r][n].k = 2
      /\ \E n \in Entries(r) : trace[r][n].step = "notify" /\ trace[r][n].k = 2

\* C12: a push that fails does not end the run, leaves the report it follows
\* uploaded, and a run that returns after it returns the completion summary
\* having processed every later file that passes the skip filter.
C12_NotifySwallowed ==
    \A r \in Runs :
      \A n \in Entries(r) :
        (trace[r][n].step = "notify" /\ ~trace[r][n].ok)
        => /\ frame[r].fault # "notify"
           /\ ~(frame[r].pc = "raised" /\ n = Len(trace[r]))
           /\ trace[r][n - 1] = [step |-> "upload", k |-> trace[r][n].k, ok |-> TRUE]
           /\ uploadCount[frame[r].files[trace[r][n].k].id] >= 1
           /\ frame[r].pc = "returned" =>
                /\ frame[r].result = DoneSummary
                /\ \A k \in (trace[r][n].k + 1)..Len(frame[r].files) :
                     (~Excluded(frame[r].files[k].name)
                      /\ ~InSnapshot(r, frame[r].files[k].name))
                     => Did(r, "upload", k)

\* the push for the first file failed, the second file was still reported
\* and the run returned the completion summary
C12_Witness ==
    \E r \in Runs :
      /\ frame[r].pc = "returned"
      /\ frame[r].result = DoneSummary
      /\ \E n \in Entries(r) :
           trace[r][n] = [step |-> "notify", k |-> 1, ok |-> FALSE]
      /\ \E n \in Entries(r) :
           trace[r][n] = [step |-> "upload", k |-> 2, ok |-> TRUE]

\* C13: for a text of length L > 0 and chunk size S, chunk i is the characters
\* at offsets (i-1)*S up to min(i*S, L), so no chunk is longer than S, every
\* chunk but the last has length S and the last has between 1 and S characters.
C13_ChunkBounds ==
    \A r \in Runs :
      LET f == frame[r]
          L == Len(f.text)
          S == f.chunk_size
          cs == IF f.pc = "call" THEN f.chunks ELSE Chunks(f.text, S)
          n == Len(cs)
      IN L > 0
         => /\ n >= 1
            /\ \A i \in 1..n :
                 LET lo == (i - 1) * S
                     hi == IF i * S < L THEN i * S ELSE L
                 IN /\ cs[i] = [j \in 1..(hi - lo) |-> f.text[lo + j]]
                    /\ Len(cs[i]) <= S
                    /\ i < n => Len(cs[i]) = S
            /\ Len(cs[n]) >= 1
            /\ (n - 1) * S + Len(cs[n]) = L

\* three chunks, two full and a shorter last one, as 20000 characters at 8000
C13_Witness ==
    \E r \in Runs :
      /\ frame[r].pc = "call"
      /\ Len(frame[r].text) = 5
      /\ frame[r].chunk_size = 2
      /\ Len(frame[r].chunks) = 3
      /\ Len(frame[r].chunks[1]) = 2
      /\ Len(frame[r].chunks[2]) = 2
      /\ Len(frame[r].chunks[3]) = 1

Kept(fs, k) == \E n \in 1..Len(fs) : fs[n].id = k

\* C14: the listing of line 167 keeps a file of the input folder exactly when
\* it has one of the three listed types and was created strictly after the
\* time of the listing minus 3 minutes; one created exactly then is dropped.
C14_Freshness ==
    [][\A r \in Runs :
         (frame[r].pc = "list_inbox" /\ frame'[r].pc = "list_outbox")
         => \A k \in 1..Len(inbox) :
              Kept(frame'[r].files, k)
              <=> /\ inbox[k].mimeType \in {"application/pdf", "application/docx",
                                            "text/plain"}
                  /\ inbox[k].createdTime > now - 3]_vars

\* just listed: a file created exactly 3 minutes ago was dropped, one created
\* 2 minutes ago was kept
C14_Witness ==
    \E r \in Runs :
      /\ frame[r].pc = "list_outbox"
      /\ frame[r].cutoff = now - 3
      /\ \E k \in 1..Len(inbox) :
           inbox[k].createdTime = now - 3 /\ ~Kept(frame[r].files, k)
      /\ \E k \in 1..Len(inbox) :
           inbox[k].createdTime = now - 2 /\ Kept(frame[r].files, k)

Listing(r) == frame[r].pc \notin {"idle", "resolve", "list_inbox"}

\* C18: every file a run lists, and so every file it performs a step for, was
\* created within the 3 minutes before the run's listing; a file created 3
\* minutes or more before the listing of a run is not listed by it and the
\* run performs no step for it, whether or not a report for it exists.
C18_StaleNeverProcessed ==
    \A r \in Runs :
      (Listing(r) /\ frame[r].result # ErrorSummary)
      => /\ \A n \in 1..Len(frame[r].files) :
              /\ frame[r].files[n].createdTime > frame[r].cutoff
              /\ frame[r].files[n].createdTime <= frame[r].cutoff + 3
         /\ \A n \in Entries(r) :
              trace[r][n].step \in CandidateSteps
              => frame[r].files[trace[r][n].k].createdTime > frame[r].cutoff
         /\ \A k \in 1..Len(inbox) :
              inbox[k].createdTime <= frame[r].cutoff => ~Kept(frame[r].files, k)

\* a supported file with no report in the outbox and no upload ever made for
\* it, too old for a run that returned the completion summary without it
C18_Witness ==
    \E r \in Runs :
      /\ frame[r].pc = "returned"
      /\ frame[r].result = DoneSummary
      /\ \E k \in 1..Len(inbox) :
           /\ inbox[k].createdTime <= frame[r].cutoff
           /\ ~Excluded(inbox[k].name)
           /\ uploadCount[k] = 0
           /\ \A j \in 1..Len(outbox) : outbox[j].name # OutputName(inbox[k].name)
           /\ ~Kept(frame[r].files, k)

\* the local paths written for the file at position k of a run's listing
ScratchPaths(r, k) ==
    { PathJoin(TEMP_FOLDER, frame[r].files[k].name),
      PathJoin(TEMP_FOLDER, OutputName(frame[r].files[k].name)) }

\* C15: the local paths written for two different candidates processed in
\* one invocation are pairwise distinct.
C15_DistinctScratchPaths ==
    \A r \in Runs :
      \A k1, k2 \in 1..Len(frame[r].files) :
        (k1 # k2 /\ Did(r, "download", k1) /\ Did(r, "download", k2))
        => ScratchPaths(r, k1) \cap ScratchPaths(r, k2) = {}

BlankLines(g) == [j \in 1..g |-> <<>>]

\* the lines of the records, in order, with g empty lines between two records
RECURSIVE Layout(_, _)
Layout(records, g) ==
    IF records = <<>> THEN <<>>
    ELSE IF Len(records) = 1 THEN SplitLines(records[1])
    ELSE SplitLines(records[1]) \o BlankLines(g) \o Layout(Tail(records), g)

\* C16 as stated: the lines of the body are the lines of the records in index
\* order with exactly one blank line between consecutive records.
C16_OneBlankLine ==
    \A r \in Runs :
      Analyzed(r) => SplitLines(frame[r].summary) = Layout(frame[r].full_response, 1)

\* C16 amended: the lines of the body are the lines of the records in index
\* order with exactly two blank lines between consecutive records.
C16_TwoBlankLines ==
    \A r \in Runs :
      Analyzed(r) => SplitLines(frame[r].summary) = Layout(frame[r].full_response, 2)

\* a body of two records, an analysis and an error
C16_Witness ==
    \E r \in Runs :
      /\ Analyzed(r)
      /\ Len(frame[r].full_response) = 2
      /\ calls[r][1].ok
      /\ ~calls[r][2].ok
      /\ Len(SplitLines(frame[r].summary)) = 5

\* the loop of run r has decided about the file at position k
Decided(r, k) ==
    /\ frame[r].pc \notin {"idle", "resolve", "list_inbox", "list_outbox"}
    /\ frame[r].result # ErrorSummary
    /\ k < frame[r].idx \/ (k = frame[r].idx /\ frame[r].pc # "loop")

\* the loop has passed the skip tests for the file at position k
TakenUp(r, k) ==
    Did(r, "download", k) \/ (frame[r].idx = k /\ frame[r].pc = "download")

NoStepFailed(r) ==
    \A n \in Entries(r) : trace[r][n].ok \/ trace[r][n].step \in {"model", "notify"}

\* C17: every file the loop has decided about was taken up exactly when its
\* name is not excluded and its report name is not in existing_outputs, which
\* an upload of the same run does not change; so of two listed files with the
\* same name and no report in the snapshot, the second is taken up after the
\* first was uploaded, and when no step fails both are uploaded under one name.
C17_SnapshotOnce ==
    \A r \in Runs :
      /\ \A k \in 1..Len(frame[r].files) :
           Decided(r, k)
           => (TakenUp(r, k)
               <=> (~Excluded(frame[r].files[k].name)
                    /\ ~InSnapshot(r, frame[r].files[k].name)))
      /\ \A k1, k2 \in 1..Len(frame[r].files) :
           (/\ k1 < k2
            /\ frame[r].files[k1].name = frame[r].files[k2].name
            /\ Did(r, "upload", k1)
            /\ NoStepFailed(r)
            /\ frame[r].pc = "returned")
           => /\ Did(r, "upload", k2)
              /\ uploadCount[frame[r].files[k1].id] >= 1
              /\ uploadCount[frame[r].files[k2].id] >= 1

\* two listed files of one name, both uploaded by the run, and the output
\* folder holds two files with the report name
C17_Witness ==
    \E r \in Runs :
      /\ frame[r].pc = "returned"
      /\ Len(frame[r].files) = 2
      /\ frame[r].files[1].name = frame[r].files[2].name
      /\ Did(r, "upload", 1)
      /\ Did(r, "upload", 2)
      /\ Len(outbox) = 2
      /\ outbox[1].name = outbox[2].name


\* the number of chunks text[i:i+size], i = 0, size, 2*size, ... has
NumChunks(text, size) == CeilDiv(Len(text), size)

\* the j-th of them, j counted from 1
ChunkAt(text, size, j) == SubSeq(text, (j - 1) * size + 1, Min(j * size, Len(text)))

\* C19: for non-blank text split into n chunks, the model calls made so far
\* are the calls for chunks 1, 2, ... in that order, call j carrying chunk j
\* and the number j; the loop variable is always one ahead of the calls made
\* (so a raised call is not repeated), there are never more than n calls, and
\* when the function returns there have been exactly n.
C19_OneCallPerChunk ==
    \A r \in Runs :
      LET f == frame[r]
          n == NumChunks(f.text, f.chunk_size)
      IN (f.pc = "call" \/ Analyzed(r))
         => /\ Len(calls[r]) <= n
            /\ f.pc = "call" => Len(calls[r]) = f.i - 1
            /\ Analyzed(r) => Len(calls[r]) = n
            /\ \A j \in 1..Len(calls[r]) :
                 /\ calls[r][j].prompt.index = j
                 /\ calls[r][j].prompt.chunk = ChunkAt(f.text, f.chunk_size, j)

\* two chunks, the first call raised and the second, made once, answered
C19_Witness ==
    \E r \in Runs :
      /\ Analyzed(r)
      /\ NumChunks(frame[r].text, frame[r].chunk_size) = 2
      /\ Len(calls[r]) = 2
      /\ ~calls[r][1].ok
      /\ calls[r][2].ok
      /\ calls[r][2].prompt.index = 2

====
